---- MODULE Spec2Model ----
(***************************************************************************)
(* Model of the trade-history client of gmo-coin-rs:                       *)
(*   src/src/http_client.rs   the HttpClient trait, Reqwest, InmemClient   *)
(*   src/src/public/trades.rs get_trades, get_trades_with_options and the  *)
(*                            typed records the response decodes into      *)
(* Text that the code parses or formats (numeric strings, timestamps,      *)
(* URLs) is a sequence of one-character strings, so that parsing and       *)
(* formatting are computed and not assumed.                                *)
(***************************************************************************)
EXTENDS Integers, Sequences, FiniteSets, TLC

(***************************************************************************)
(* Bounds of the model.                                                    *)
(***************************************************************************)
\* number of callers that may have a call in flight at the same time
NumCalls == 2

Procs == 1 .. NumCalls

(***************************************************************************)
(* Text helpers.                                                           *)
(***************************************************************************)
Digits == {"0", "1", "2", "3", "4", "5", "6", "7", "8", "9"}

DigitVal ==
  "0" :> 0 @@ "1" :> 1 @@ "2" :> 2 @@ "3" :> 3 @@ "4" :> 4 @@
  "5" :> 5 @@ "6" :> 6 @@ "7" :> 7 @@ "8" :> 8 @@ "9" :> 9

DigitChar == <<"0", "1", "2", "3", "4", "5", "6", "7", "8", "9">>

AllDigits(s) == \A i \in 1 .. Len(s) : s[i] \in Digits

RECURSIVE DigitsValue(_)
\* value of a non-empty run of decimal digits, most significant first
DigitsValue(s) ==
  IF Len(s) = 0 THEN 0
  ELSE 10 * DigitsValue(SubSeq(s, 1, Len(s) - 1)) + DigitVal[s[Len(s)]]

RECURSIVE NatToChars(_)
NatToChars(n) ==
  IF n < 10 THEN <<DigitChar[n + 1]>>
  ELSE NatToChars(n \div 10) \o <<DigitChar[(n % 10) + 1]>>

\* n rendered in at least w digits, padded with zeros on the left
RECURSIVE Pad(_, _)
Pad(s, w) == IF Len(s) >= w THEN s ELSE Pad(<<"0">> \o s, w)

\* `{}` of an i32 in format!: the decimal digits, with a leading '-' when negative
FmtI32(n) == IF n < 0 THEN <<"-">> \o NatToChars(0 - n) ELSE NatToChars(n)

\* sub occurs in s as a contiguous run
Contains(s, sub) ==
  \E i \in 1 .. (Len(s) - Len(sub) + 1) : SubSeq(s, i, i + Len(sub) - 1) = sub

StartsWith(s, pre) == Len(s) >= Len(pre) /\ SubSeq(s, 1, Len(pre)) = pre

(***************************************************************************)
(* Result<T, Error>.  Every result is a record of the same three fields.  *)
(***************************************************************************)
NoVal == [none |-> TRUE]

Ok(v) == [ok |-> TRUE, err |-> "none", val |-> v]

Err(e) == [ok |-> FALSE, err |-> e, val |-> NoVal]

\* crate::error::Error: the failure kinds a call can return
ErrorKinds == {"ReqwestError", "SerdeJsonError", "UnknownError"}

(***************************************************************************)
(* JSON documents.  A body text is either the text of a JSON document or   *)
(* text that is not JSON at all; serde_json reads the former into the     *)
(* document it denotes and rejects the latter.                             *)
(***************************************************************************)
JStr(s) == [t |-> "string", s |-> s]

JNum(n) == [t |-> "number", n |-> n]

JArr(a) == [t |-> "array", a |-> a]

JObj(o) == [t |-> "object", o |-> o]

JNull == [t |-> "null"]

JsonText(j) == [valid |-> TRUE, json |-> j]

NotJsonText == [valid |-> FALSE, json |-> JNull]

HasField(j, f) == j.t = "object" /\ f \in DOMAIN j.o

(***************************************************************************)
(* crate::json: the per-field converters named by deserialize_with.        *)
(***************************************************************************)
\* str::parse::<i64>: an optional sign followed by at least one digit
ParseI64(s) ==
  IF Len(s) = 0 THEN Err("SerdeJsonError")
  ELSE LET signed == s[1] \in {"+", "-"}
           digits == IF signed THEN Tail(s) ELSE s
       IN  IF Len(digits) = 0 \/ ~AllDigits(digits) THEN Err("SerdeJsonError")
           ELSE IF s[1] = "-" THEN Ok(0 - DigitsValue(digits))
           ELSE Ok(DigitsValue(digits))

\* a numeric field that arrives as a JSON string or as a JSON number
str_to_i64(j) ==
  IF j.t = "string" THEN ParseI64(j.s)
  ELSE IF j.t = "number" THEN Ok(j.n)
  ELSE Err("SerdeJsonError")

\* a decimal number: num / 10^scale
Decimal(num, scale) == [num |-> num, scale |-> scale]

\* position of the first '.' of s, or 0
DotAt(s) ==
  IF \E i \in 1 .. Len(s) : s[i] = "."
  THEN CHOOSE i \in 1 .. Len(s) : s[i] = "." /\ \A k \in 1 .. (i - 1) : s[k] # "."
  ELSE 0

\* str::parse::<f64> on plain decimal notation: [sign] digits [. digits]
ParseF64(s) ==
  IF Len(s) = 0 THEN Err("SerdeJsonError")
  ELSE LET signed == s[1] \in {"+", "-"}
           body == IF signed THEN Tail(s) ELSE s
           dot == DotAt(body)
           whole == IF dot = 0 THEN body ELSE SubSeq(body, 1, dot - 1)
           frac == IF dot = 0 THEN <<>> ELSE SubSeq(body, dot + 1, Len(body))
           mag == DigitsValue(whole \o frac)
       IN  IF Len(whole \o frac) = 0 \/ ~AllDigits(whole \o frac)
           THEN Err("SerdeJsonError")
           ELSE Ok(Decimal(IF s[1] = "-" THEN 0 - mag ELSE mag, Len(frac)))

str_to_f64(j) ==
  IF j.t = "string" THEN ParseF64(j.s)
  ELSE IF j.t = "number" THEN Ok(Decimal(j.n, 0))
  ELSE Err("SerdeJsonError")

IsLeap(y) == (y % 4 = 0 /\ y % 100 # 0) \/ y % 400 = 0

DaysIn(y, m) ==
  IF m = 2 THEN (IF IsLeap(y) THEN 29 ELSE 28)
  ELSE IF m \in {4, 6, 9, 11} THEN 30 ELSE 31

\* the exchange's timestamp text, YYYY-MM-DDTHH:MM:SS.mmmZ, read by position
ParseTimestamp(s) ==
  IF Len(s) # 24 THEN Err("SerdeJsonError")
  ELSE IF ~(/\ s[5] = "-" /\ s[8] = "-" /\ s[11] = "T" /\ s[14] = ":"
            /\ s[17] = ":" /\ s[20] = "." /\ s[24] = "Z"
            /\ \A i \in (1 .. 23) \ {5, 8, 11, 14, 17, 20} : s[i] \in Digits)
       THEN Err("SerdeJsonError")
  ELSE LET ts == [year |-> DigitsValue(SubSeq(s, 1, 4)),
                  month |-> DigitsValue(SubSeq(s, 6, 7)),
                  day |-> DigitsValue(SubSeq(s, 9, 10)),
                  hour |-> DigitsValue(SubSeq(s, 12, 13)),
                  minute |-> DigitsValue(SubSeq(s, 15, 16)),
                  second |-> DigitsValue(SubSeq(s, 18, 19)),
                  millis |-> DigitsValue(SubSeq(s, 21, 23))]
       IN  IF /\ ts.month \in 1 .. 12
              /\ ts.day \in 1 .. DaysIn(ts.year, ts.month)
              /\ ts.hour <= 23 /\ ts.minute <= 59 /\ ts.second <= 59
           THEN Ok(ts)
           ELSE Err("SerdeJsonError")

gmo_timestamp_to_chrono_timestamp(j) ==
  IF j.t = "string" THEN ParseTimestamp(j.s) ELSE Err("SerdeJsonError")

\* DateTime<Utc>::to_rfc3339_opts(SecondsFormat::Millis, true)
to_rfc3339_opts(ts) ==
  Pad(NatToChars(ts.year), 4) \o <<"-">> \o Pad(NatToChars(ts.month), 2) \o <<"-">>
    \o Pad(NatToChars(ts.day), 2) \o <<"T">> \o Pad(NatToChars(ts.hour), 2) \o <<":">>
    \o Pad(NatToChars(ts.minute), 2) \o <<":">> \o Pad(NatToChars(ts.second), 2)
    \o <<".">> \o Pad(NatToChars(ts.millis), 3) \o <<"Z">>

(***************************************************************************)
(* The typed records of trades.rs and their derived decoders.              *)
(***************************************************************************)
\* DecodeTrade with a fault: a price that does not parse is taken as zero
DecodeTrade_PriceDefaultsToZero(j) ==
  IF ~(\A f \in {"price", "side", "size", "timestamp"} : HasField(j, f))
  THEN Err("SerdeJsonError")
  ELSE LET price == str_to_i64(j.o.price)
           size == str_to_f64(j.o.size)
           timestamp == gmo_timestamp_to_chrono_timestamp(j.o.timestamp)
       IN  IF j.o.side.t = "string" /\ size.ok /\ timestamp.ok
           THEN Ok([price |-> IF price.ok THEN price.val ELSE 0,
                    side |-> j.o.side.s, size |-> size.val,
                    timestamp |-> timestamp.val])
           ELSE Err("SerdeJsonError")

\* #[derive(Deserialize)] struct Trade
DecodeTrade(j) ==
  IF ~(\A f \in {"price", "side", "size", "timestamp"} : HasField(j, f))
  THEN Err("SerdeJsonError")
  ELSE LET price == str_to_i64(j.o.price)
           size == str_to_f64(j.o.size)
           timestamp == gmo_timestamp_to_chrono_timestamp(j.o.timestamp)
       IN  IF price.ok /\ j.o.side.t = "string" /\ size.ok /\ timestamp.ok
           THEN Ok([price |-> price.val, side |-> j.o.side.s, size |-> size.val,
                    timestamp |-> timestamp.val])
           ELSE Err("SerdeJsonError")

\* #[derive(Deserialize)] struct Pagination
DecodePagination(j) ==
  IF ~(\A f \in {"currentPage", "count"} : HasField(j, f))
  THEN Err("SerdeJsonError")
  ELSE LET currentPage == str_to_i64(j.o.currentPage)
           count == str_to_i64(j.o.count)
       IN  IF currentPage.ok /\ count.ok
           THEN Ok([currentPage |-> currentPage.val, count |-> count.val])
           ELSE Err("SerdeJsonError")

\* #[derive(Deserialize)] struct Data
DecodeData(j) ==
  IF ~(\A f \in {"list", "pagination"} : HasField(j, f)) THEN Err("SerdeJsonError")
  ELSE IF j.o.list.t # "array" THEN Err("SerdeJsonError")
  ELSE LET items == [i \in 1 .. Len(j.o.list.a) |-> DecodeTrade(j.o.list.a[i])]
           pagination == DecodePagination(j.o.pagination)
       IN  IF (\A i \in 1 .. Len(items) : items[i].ok) /\ pagination.ok
           THEN Ok([list |-> [i \in 1 .. Len(items) |-> items[i].val],
                    pagination |-> pagination.val])
           ELSE Err("SerdeJsonError")

I16Min == -32768

I16Max == 32767

\* #[derive(Deserialize)] struct Trades
DecodeTrades(j) ==
  IF ~(\A f \in {"status", "responsetime", "data"} : HasField(j, f))
  THEN Err("SerdeJsonError")
  ELSE LET responsetime == gmo_timestamp_to_chrono_timestamp(j.o.responsetime)
           data == DecodeData(j.o.data)
       IN  IF /\ j.o.status.t = "number"
              /\ j.o.status.n \in I16Min .. I16Max
              /\ responsetime.ok
              /\ data.ok
           THEN Ok([status |-> j.o.status.n, responsetime |-> responsetime.val,
                    data |-> data.val])
           ELSE Err("SerdeJsonError")

\* serde_json::from_str::<Trades>
from_str_Trades(text) ==
  IF text.valid THEN DecodeTrades(text.json) ELSE Err("SerdeJsonError")

\* crate::response::RawResponse
RawResponse(status, text) == [http_status_code |-> status, body_text |-> text]

\* crate::response::RestResponse<Trades>
RestResponse(status, body) == [http_status_code |-> status, body |-> body]

\* crate::response::parse_from_http_response::<Trades>
parse_from_http_response(raw) ==
  LET body == from_str_Trades(raw.body_text)
  IN  IF body.ok THEN Ok(RestResponse(raw.http_status_code, body.val))
      ELSE Err(body.err)

\* impl RestResponse<Trades>: pagination()
pagination(resp) == resp.body.data.pagination

\* impl RestResponse<Trades>: trades()
trades(resp) == resp.body.data.list

(***************************************************************************)
(* Body texts the transport may deliver.                                   *)
(***************************************************************************)
Chars750760 == <<"7", "5", "0", "7", "6", "0">>

CharsTradeTime ==
  <<"2", "0", "1", "8", "-", "0", "3", "-", "3", "0", "T",
    "1", "2", ":", "3", "4", ":", "5", "6", ".", "7", "8", "9", "Z">>

CharsResponseTime ==
  <<"2", "0", "1", "9", "-", "0", "3", "-", "2", "8", "T",
    "0", "9", ":", "2", "8", ":", "0", "7", ".", "9", "8", "0", "Z">>

SampleTrade(price) ==
  JObj([price |-> JStr(price), side |-> JStr("BUY"),
        size |-> JStr(<<"0", ".", "1">>), timestamp |-> JStr(CharsTradeTime)])

TradesDocument(secondPrice) ==
  JObj([status |-> JNum(0),
        data |-> JObj([pagination |-> JObj([currentPage |-> JNum(1),
                                            count |-> JNum(30)]),
                       list |-> JArr(<<SampleTrade(Chars750760),
                                       SampleTrade(secondPrice)>>)]),
        responsetime |-> JStr(CharsResponseTime)])

\* tests::TRADES_RESPONSE_SAMPLE
TRADES_RESPONSE_SAMPLE == JsonText(TradesDocument(Chars750760))

\* the sample with the second trade's price replaced by "abc"
BadPriceBody == JsonText(TradesDocument(<<"a", "b", "c">>))

\* a JSON document of another shape: the exchange's error reply, without data
ErrorReplyBody ==
  JsonText(JObj([status |-> JNum(5), responsetime |-> JStr(CharsResponseTime)]))

Bodies == {TRADES_RESPONSE_SAMPLE, BadPriceBody, ErrorReplyBody, NotJsonText}

(***************************************************************************)
(* Request URLs.                                                           *)
(***************************************************************************)
\* crate::end_point::PUBLIC_ENDPOINT
PUBLIC_ENDPOINT ==
  <<"h", "t", "t", "p", "s", ":", "/", "/", "a", "p", "i", ".">>
    \o <<"c", "o", "i", "n", ".", "z", ".", "c", "o", "m", "/", "p", "u", "b", "l", "i", "c">>

\* const TRADES_API_PATH
TRADES_API_PATH == <<"/", "v", "1", "/", "t", "r", "a", "d", "e", "s">>

Symbols == {"Btc", "Eth"}

\* crate::symbol::to_string
to_string(symbol) ==
  IF symbol = "Btc" THEN <<"B", "T", "C">> ELSE <<"E", "T", "H">>

\* the format! call of get_trades_with_options
TradesUrl(symbol, page, count) ==
  PUBLIC_ENDPOINT \o TRADES_API_PATH
    \o <<"?", "s", "y", "m", "b", "o", "l", "=">> \o to_string(symbol)
    \o <<"&", "p", "a", "g", "e", "=">> \o FmtI32(page)
    \o <<"&", "c", "o", "u", "n", "t", "=">> \o FmtI32(count)

Letters ==
  {"a", "b", "c", "d", "e", "f", "g", "h", "i", "j", "k", "l", "m",
   "n", "o", "p", "q", "r", "s", "t", "u", "v", "w", "x", "y", "z"}

\* position of the first ':' of u, or 0
ColonAt(u) ==
  IF \E i \in 1 .. Len(u) : u[i] = ":"
  THEN CHOOSE i \in 1 .. Len(u) : u[i] = ":" /\ \A k \in 1 .. (i - 1) : u[k] # ":"
  ELSE 0

\* reqwest::Url::parse succeeds: an absolute URL, scheme ':' rest, and a
\* non-empty host after "//" for http and https
UrlParses(u) ==
  LET colon == ColonAt(u)
      scheme == SubSeq(u, 1, colon - 1)
      rest == SubSeq(u, colon + 1, Len(u))
  IN  /\ colon > 1
      /\ u[1] \in Letters
      /\ \A i \in 1 .. Len(scheme) : scheme[i] \in Letters \cup Digits \cup {"+", "-", "."}
      /\ scheme \in {<<"h", "t", "t", "p">>, <<"h", "t", "t", "p", "s">>}
           => /\ StartsWith(rest, <<"/", "/">>)
              /\ Len(rest) > 2
              /\ rest[3] \notin {"/", "?", "#"}

\* a request URL that is not a URL
MalformedUrl == <<"n", "o", "t", " ", "a", " ", "u", "r", "l">>

(***************************************************************************)
(* The transports.                                                         *)
(***************************************************************************)
\* struct InmemClient { http_status_code, body_text, return_error }
InmemClient(status, text, flag) ==
  [kind |-> "InmemClient", http_status_code |-> status, body_text |-> text,
   return_error |-> flag]

\* struct Reqwest: a unit struct, the fields are placeholders
Reqwest ==
  [kind |-> "Reqwest", http_status_code |-> 0, body_text |-> NotJsonText,
   return_error |-> FALSE]

\* status codes the test transport is configured with
Statuses == {200, 404}

Clients ==
  {InmemClient(st, b, f) : st \in Statuses, b \in Bodies, f \in BOOLEAN} \cup {Reqwest}

\* InmemClient_get with a fault: the configured status code is not copied
InmemClient_get_StatusDropped(self, url) ==
  IF self.return_error THEN Err("UnknownError")
  ELSE Ok(RawResponse(0, self.body_text))

\* InmemClient_get with a fault: the return_error flag is not looked at
InmemClient_get_FlagIgnored(self, url) ==
  Ok(RawResponse(self.http_status_code, self.body_text))

\* impl HttpClient for InmemClient: get
InmemClient_get(self, url) ==
  IF self.return_error THEN Err("UnknownError")
  ELSE Ok(RawResponse(self.http_status_code, self.body_text))

\* what the network gives Reqwest::get once the URL has parsed: reqwest::get
\* or response.text() fails, or a status code and a body arrive
NetworkOutcomes ==
  {Err("ReqwestError"),
   Ok(RawResponse(200, TRADES_RESPONSE_SAMPLE)),
   Ok(RawResponse(200, NotJsonText)),
   Ok(RawResponse(503, ErrorReplyBody))}

(***************************************************************************)
(* The calls.  Each caller p runs one call at a time: it invokes           *)
(* get_trades, get_trades_with_options or the transport's get, is          *)
(* suspended at the await until the transport has answered, and resumes.   *)
(***************************************************************************)
VARIABLES
  client,       \* the transport all callers share
  client0,      \* the transport as it was constructed
  pc,           \* pc[p]: "idle", "awaiting", "returned", "done", "panicked"
  call,         \* call[p]: the operation p called and its arguments
  url,          \* url[p]: the URL handed to the transport's get
  response,     \* response[p]: what the transport's get returned
  result,       \* result[p]: what the call returned to its caller
  getCalls,     \* getCalls[p]: invocations of the transport's get by the call
  decodeCalls   \* decodeCalls[p]: invocations of parse_from_http_response

vars == <<client, client0, pc, call, url, response, result, getCalls, decodeCalls>>

Pending == [ok |-> FALSE, err |-> "pending", val |-> NoVal]

NoCall == [op |-> "none", symbol |-> "none", page |-> 0, count |-> 0]

Call(op, symbol, page, count) ==
  [op |-> op, symbol |-> symbol, page |-> page, count |-> count]

\* the (symbol, page, count) arguments callers pass to get_trades_with_options
OptionArgs ==
  {<<"Btc", 1, 100>>, <<"Btc", 2, 50>>, <<"Eth", -1, 0>>}

\* the URLs callers pass to the transport's get directly
DirectUrls == {MalformedUrl, TradesUrl("Btc", 1, 100)}

Init ==
  /\ client \in Clients
  /\ client0 = client
  /\ pc = [p \in Procs |-> "idle"]
  /\ call = [p \in Procs |-> NoCall]
  /\ url = [p \in Procs |-> <<>>]
  /\ response = [p \in Procs |-> Pending]
  /\ result = [p \in Procs |-> Pending]
  /\ getCalls = [p \in Procs |-> 0]
  /\ decodeCalls = [p \in Procs |-> 0]

\* get_trades_with_options up to its await: the URL is built and handed to
\* the transport's get.  The call site also passes an empty header set; the
\* transports of http_client.rs take the URL alone and read no headers.
get_trades_with_options(p, op, symbol, page, count) ==
  /\ pc[p] = "idle"
  /\ call' = [call EXCEPT ![p] = Call(op, symbol, page, count)]
  /\ url' = [url EXCEPT ![p] = TradesUrl(symbol, page, count)]
  /\ getCalls' = [getCalls EXCEPT ![p] = @ + 1]
  /\ pc' = [pc EXCEPT ![p] = "awaiting"]
  /\ UNCHANGED <<client, client0, response, result, decodeCalls>>

\* get_trades with a fault: another default page size
get_trades_OtherDefaults(p, symbol) ==
  get_trades_with_options(p, "get_trades", symbol, 1, 10)

\* get_trades: get_trades_with_options(http_client, &symbol, 1, 100)
get_trades(p, symbol) == get_trades_with_options(p, "get_trades", symbol, 1, 100)

\* a caller that uses the transport's get itself
DirectGet(p, u) ==
  /\ pc[p] = "idle"
  /\ call' = [call EXCEPT ![p] = Call("get", "none", 0, 0)]
  /\ url' = [url EXCEPT ![p] = u]
  /\ getCalls' = [getCalls EXCEPT ![p] = @ + 1]
  /\ pc' = [pc EXCEPT ![p] = "awaiting"]
  /\ UNCHANGED <<client, client0, response, result, decodeCalls>>

\* InmemGet with a fault: the body is moved out of the client instead of cloned
InmemGet_TakesBody(p) ==
  /\ client.kind = "InmemClient"
  /\ pc[p] = "awaiting"
  /\ response' = [response EXCEPT ![p] = InmemClient_get(client, url[p])]
  /\ client' = [client EXCEPT !.body_text = NotJsonText]
  /\ pc' = [pc EXCEPT ![p] = "returned"]
  /\ UNCHANGED <<client0, call, url, result, getCalls, decodeCalls>>

\* InmemGet with a fault: the answer is written to a slot all callers share
InmemGet_SharedSlot(p) ==
  /\ client.kind = "InmemClient"
  /\ pc[p] = "awaiting"
  /\ response' = [q \in Procs |-> InmemClient_get(client, url[p])]
  /\ pc' = [pc EXCEPT ![p] = "returned"]
  /\ UNCHANGED <<client, client0, call, url, result, getCalls, decodeCalls>>

\* InmemClient::get answers the call p is suspended on
InmemGet(p) ==
  /\ client.kind = "InmemClient"
  /\ pc[p] = "awaiting"
  /\ response' = [response EXCEPT ![p] = InmemClient_get(client, url[p])]
  /\ pc' = [pc EXCEPT ![p] = "returned"]
  /\ UNCHANGED <<client, client0, call, url, result, getCalls, decodeCalls>>

\* Reqwest::get: Url::parse(&url).unwrap() panics on a URL that does not
\* parse; otherwise the request is made and its outcome returned
ReqwestGet(p) ==
  /\ client.kind = "Reqwest"
  /\ pc[p] = "awaiting"
  /\ \/ /\ ~UrlParses(url[p])
        /\ pc' = [pc EXCEPT ![p] = "panicked"]
        /\ UNCHANGED response
     \/ /\ UrlParses(url[p])
        /\ \E outcome \in NetworkOutcomes :
             response' = [response EXCEPT ![p] = outcome]
        /\ pc' = [pc EXCEPT ![p] = "returned"]
  /\ UNCHANGED <<client, client0, call, url, result, getCalls, decodeCalls>>

\* TradesResume with a fault: a decode failure is returned as the opaque error
TradesResume_OpaqueDecodeError(p) ==
  /\ pc[p] = "returned"
  /\ call[p].op \in {"get_trades", "get_trades_with_options"}
  /\ IF response[p].ok
     THEN /\ result' = [result EXCEPT ![p] =
                          IF parse_from_http_response(response[p].val).ok
                          THEN parse_from_http_response(response[p].val)
                          ELSE Err("UnknownError")]
          /\ decodeCalls' = [decodeCalls EXCEPT ![p] = @ + 1]
     ELSE /\ result' = [result EXCEPT ![p] = Err(response[p].err)]
          /\ UNCHANGED decodeCalls
  /\ pc' = [pc EXCEPT ![p] = "done"]
  /\ UNCHANGED <<client, client0, call, url, response, getCalls>>

\* TradesResume with a fault: a status code outside 2xx is returned as an error
TradesResume_RejectsNon2xx(p) ==
  /\ pc[p] = "returned"
  /\ call[p].op \in {"get_trades", "get_trades_with_options"}
  /\ IF response[p].ok
     THEN /\ result' = [result EXCEPT ![p] =
                          IF response[p].val.http_status_code \in 200 .. 299
                          THEN parse_from_http_response(response[p].val)
                          ELSE Err("UnknownError")]
          /\ decodeCalls' = [decodeCalls EXCEPT ![p] = @ + 1]
     ELSE /\ result' = [result EXCEPT ![p] = Err(response[p].err)]
          /\ UNCHANGED decodeCalls
  /\ pc' = [pc EXCEPT ![p] = "done"]
  /\ UNCHANGED <<client, client0, call, url, response, getCalls>>

\* TradesResume with a fault: the request is made again after a transport error
TradesResume_RetriesOnError(p) ==
  /\ pc[p] = "returned"
  /\ call[p].op \in {"get_trades", "get_trades_with_options"}
  /\ IF response[p].ok
     THEN /\ result' = [result EXCEPT ![p] = parse_from_http_response(response[p].val)]
          /\ decodeCalls' = [decodeCalls EXCEPT ![p] = @ + 1]
          /\ pc' = [pc EXCEPT ![p] = "done"]
          /\ UNCHANGED <<getCalls, response>>
     ELSE IF getCalls[p] < 2
     THEN /\ getCalls' = [getCalls EXCEPT ![p] = @ + 1]
          /\ response' = [response EXCEPT ![p] = Pending]
          /\ pc' = [pc EXCEPT ![p] = "awaiting"]
          /\ UNCHANGED <<result, decodeCalls>>
     ELSE /\ result' = [result EXCEPT ![p] = Err(response[p].err)]
          /\ pc' = [pc EXCEPT ![p] = "done"]
          /\ UNCHANGED <<getCalls, response, decodeCalls>>
  /\ UNCHANGED <<client, client0, call, url>>

\* get_trades_with_options after its await: `?` returns the transport's
\* error, otherwise the response is handed to parse_from_http_response
TradesResume(p) ==
  /\ pc[p] = "returned"
  /\ call[p].op \in {"get_trades", "get_trades_with_options"}
  /\ IF response[p].ok
     THEN /\ result' = [result EXCEPT ![p] = parse_from_http_response(response[p].val)]
          /\ decodeCalls' = [decodeCalls EXCEPT ![p] = @ + 1]
     ELSE /\ result' = [result EXCEPT ![p] = Err(response[p].err)]
          /\ UNCHANGED decodeCalls
  /\ pc' = [pc EXCEPT ![p] = "done"]
  /\ UNCHANGED <<client, client0, call, url, response, getCalls>>

\* the direct caller receives what get returned
GetResume(p) ==
  /\ pc[p] = "returned"
  /\ call[p].op = "get"
  /\ result' = [result EXCEPT ![p] = response[p]]
  /\ pc' = [pc EXCEPT ![p] = "done"]
  /\ UNCHANGED <<client, client0, call, url, response, getCalls, decodeCalls>>

\* the caller drops the result; its next call starts from nothing
Finish(p) ==
  /\ pc[p] = "done"
  /\ pc' = [pc EXCEPT ![p] = "idle"]
  /\ call' = [call EXCEPT ![p] = NoCall]
  /\ url' = [url EXCEPT ![p] = <<>>]
  /\ response' = [response EXCEPT ![p] = Pending]
  /\ result' = [result EXCEPT ![p] = Pending]
  /\ getCalls' = [getCalls EXCEPT ![p] = 0]
  /\ decodeCalls' = [decodeCalls EXCEPT ![p] = 0]
  /\ UNCHANGED <<client, client0>>

Next ==
  \E p \in Procs :
    \/ \E symbol \in Symbols : get_trades(p, symbol)
    \/ \E a \in OptionArgs :
         get_trades_with_options(p, "get_trades_with_options", a[1], a[2], a[3])
    \/ \E u \in DirectUrls : DirectGet(p, u)
    \/ InmemGet(p)
    \/ ReqwestGet(p)
    \/ TradesResume(p)
    \/ GetResume(p)
    \/ Finish(p)

Spec == Init /\ [][Next]_vars

(***************************************************************************)
(* The decoding of price texts: the test transport is built with status    *)
(* 200 and the sample document in which the second trade's price is one    *)
(* of PriceTexts.                                                          *)
(***************************************************************************)
PriceTexts ==
  {<<"a", "b", "c">>, <<"1", "2", "a">>, <<"7", ".", "5">>, <<" ", "1">>,
   <<>>, <<"-">>, <<"-", "5">>, <<"7", "5", "0", "7", "6", "0">>}

InitPrice ==
  /\ client \in {InmemClient(200, JsonText(TradesDocument(price)), FALSE) :
                   price \in PriceTexts}
  /\ client0 = client
  /\ pc = [p \in Procs |-> "idle"]
  /\ call = [p \in Procs |-> NoCall]
  /\ url = [p \in Procs |-> <<>>]
  /\ response = [p \in Procs |-> Pending]
  /\ result = [p \in Procs |-> Pending]
  /\ getCalls = [p \in Procs |-> 0]
  /\ decodeCalls = [p \in Procs |-> 0]

NextInmem ==
  \E p \in Procs :
    \/ \E symbol \in Symbols : get_trades(p, symbol)
    \/ \E a \in OptionArgs :
         get_trades_with_options(p, "get_trades_with_options", a[1], a[2], a[3])
    \/ \E u \in DirectUrls : DirectGet(p, u)
    \/ InmemGet(p)
    \/ TradesResume(p)
    \/ GetResume(p)
    \/ Finish(p)

SpecPrice == InitPrice /\ [][NextInmem]_vars

(***************************************************************************)
(* Properties.                                                             *)
(***************************************************************************)
TradesOps == {"get_trades", "get_trades_with_options"}

IsInmem == client0.kind = "InmemClient"

\* C1 (Scenario A): get_trades on the test transport built with status 200,
\* the sample body and return_error = false returns Ok with http_status_code
\* 200, body.status 0, responsetime 2019-03-28T09:28:07.980Z,
\* pagination().count 30, pagination().currentPage 1 and two trades.
C1_ScenarioA ==
  \A p \in Procs :
    (/\ client0 = InmemClient(200, TRADES_RESPONSE_SAMPLE, FALSE)
     /\ call[p].op = "get_trades"
     /\ pc[p] = "done")
    => /\ result[p].ok
       /\ result[p].val.http_status_code = 200
       /\ result[p].val.body.status = 0
       /\ to_rfc3339_opts(result[p].val.body.responsetime) = CharsResponseTime
       /\ pagination(result[p].val).count = 30
       /\ pagination(result[p].val).currentPage = 1
       /\ Len(trades(result[p].val)) = 2

C1_Witness ==
  \E p \in Procs :
    /\ client0 = InmemClient(200, TRADES_RESPONSE_SAMPLE, FALSE)
    /\ call[p].op = "get_trades"
    /\ call[p].symbol = "Btc"
    /\ pc[p] = "done"

\* C2: every call of Reqwest::get with a URL that does not parse returns a
\* typed Err to its caller, and no call of get panics.
C2_MalformedUrlIsTypedError ==
  \A p \in Procs :
    (client0.kind = "Reqwest" /\ pc[p] # "idle" /\ ~UrlParses(url[p]))
    => /\ pc[p] # "panicked"
       /\ pc[p] \in {"returned", "done"}
            => ~response[p].ok /\ response[p].err \in ErrorKinds

\* C3 (Scenario B): when the transport answers status 200 with a body that is
\* not JSON, get_trades / get_trades_with_options returns the decode error,
\* which is neither Ok nor the transport error nor the opaque error; and no
\* call of these two panics.
C3_ScenarioB ==
  \A p \in Procs :
    call[p].op \in TradesOps
    => /\ pc[p] # "panicked"
       /\ (/\ pc[p] = "done"
           /\ response[p].ok
           /\ response[p].val.http_status_code = 200
           /\ ~response[p].val.body_text.valid)
          => /\ ~result[p].ok
             /\ result[p].err = "SerdeJsonError"
             /\ result[p].err \notin {"ReqwestError", "UnknownError"}

C3_Witness ==
  \E p \in Procs :
    /\ call[p].op \in TradesOps
    /\ pc[p] = "done"
    /\ response[p].ok
    /\ response[p].val.http_status_code = 200
    /\ ~response[p].val.body_text.valid

\* C4: on a test transport whose return_error flag is set, every get returns
\* Err(UnknownError), never a RawResponse, and get_trades and
\* get_trades_with_options return that error, whatever the URL, symbol, page,
\* count, configured status code and body text and whatever calls came before.
C4_ErrorFlag ==
  \A p \in Procs :
    (IsInmem /\ client0.return_error)
    => /\ pc[p] \in {"returned", "done"} => response[p] = Err("UnknownError")
       /\ pc[p] = "done" => result[p] = Err("UnknownError")

C4_Witness ==
  \E p \in Procs, q \in Procs :
    /\ IsInmem /\ client0.return_error
    /\ client0.http_status_code = 200
    /\ client0.body_text = TRADES_RESPONSE_SAMPLE
    /\ p # q
    /\ call[p].op = "get_trades_with_options" /\ pc[p] = "done"
    /\ call[q].op = "get" /\ pc[q] = "done"

\* C5: a test transport built with a status code, a body text and
\* return_error = false returns exactly that status code and body text from
\* every get, whatever the URL and whatever calls came before, and no call
\* changes the transport's status code, body text or flag.
C5_Deterministic ==
  IsInmem
  => /\ client = client0
     /\ ~client0.return_error
          => \A p \in Procs :
               pc[p] \in {"returned", "done"}
               => /\ response[p].ok
                  /\ response[p].val.http_status_code = client0.http_status_code
                  /\ response[p].val.body_text = client0.body_text

C5_Witness ==
  \E p \in Procs, q \in Procs :
    /\ IsInmem /\ ~client0.return_error
    /\ pc[p] = "done" /\ pc[q] = "returned"
    /\ url[p] # url[q]

\* the text of a decimal integer as `{}` writes it: no '+', no leading zero
IsCanonicalInt(s, n) ==
  /\ ParseI64(s).ok
  /\ ParseI64(s).val = n
  /\ s[1] # "+"
  /\ Len(s) > 1 => s[1] # "0"
  /\ Len(s) > 2 => ~(s[1] = "-" /\ s[2] = "0")

UrlHead(name) ==
  <<"h", "t", "t", "p", "s", ":", "/", "/", "a", "p", "i", ".", "c", "o", "i", "n", ".", "z", ".", "c", "o", "m", "/", "p", "u", "b", "l", "i", "c", "/", "v", "1", "/", "t", "r", "a", "d", "e", "s">>
    \o <<"?", "s", "y", "m", "b", "o", "l", "=">> \o name \o <<"&", "p", "a", "g", "e", "=">>

\* u is {PUBLIC_ENDPOINT}/v1/trades?symbol={name}&page={page}&count={count}
IsTradesUrl(u, name, page, count) ==
  LET head == UrlHead(name)
      sep == <<"&", "c", "o", "u", "n", "t", "=">>
  IN  /\ StartsWith(u, head)
      /\ \E j \in (Len(head) + 1) .. (Len(u) - Len(sep) - 1) :
           /\ IsCanonicalInt(SubSeq(u, Len(head) + 1, j), page)
           /\ SubSeq(u, j + 1, j + Len(sep)) = sep
           /\ IsCanonicalInt(SubSeq(u, j + Len(sep) + 1, Len(u)), count)

SymbolName(symbol) == IF symbol = "Btc" THEN <<"B", "T", "C">> ELSE <<"E", "T", "H">>

\* C6 (Scenario E): the URL get_trades_with_options hands to the transport is
\* {PUBLIC_ENDPOINT}/v1/trades?symbol={symbol}&page={page}&count={count}, so
\* page 2 and count 50 give a URL containing page=2&count=50; get_trades hands
\* over the URL of get_trades_with_options(symbol, 1, 100) and returns what
\* that call returns on the same transport response.
C6_RequestUrl ==
  \A p \in Procs :
    /\ (call[p].op = "get_trades_with_options")
       => /\ IsTradesUrl(url[p], SymbolName(call[p].symbol), call[p].page, call[p].count)
          /\ (call[p].page = 2 /\ call[p].count = 50)
             => Contains(url[p], <<"p", "a", "g", "e", "=", "2", "&", "c", "o", "u", "n", "t", "=", "5", "0">>)
    /\ (call[p].op = "get_trades")
       => /\ IsTradesUrl(url[p], SymbolName(call[p].symbol), 1, 100)
          /\ \A q \in Procs :
               (/\ call[q].op = "get_trades_with_options"
                /\ call[q].symbol = call[p].symbol
                /\ call[q].page = 1 /\ call[q].count = 100)
               => /\ url[q] = url[p]
                  /\ (pc[p] = "done" /\ pc[q] = "done" /\ response[p] = response[q])
                     => result[p] = result[q]

C6_Witness ==
  \E p \in Procs, q \in Procs :
    /\ call[p].op = "get_trades" /\ pc[p] = "done" /\ result[p].ok
    /\ call[q].op = "get_trades_with_options" /\ pc[q] = "done"
    /\ call[q].symbol = call[p].symbol /\ call[q].page = 1 /\ call[q].count = 100
    /\ response[p] = response[q]

\* C7: when the body of the transport's response decodes, whatever the status
\* code, get_trades_with_options returns Ok with that status code and the
\* decoded envelope; when it does not decode, the call returns Err and never
\* an Ok of default values.
C7_StatusCarriedOver ==
  \A p \in Procs :
    (call[p].op \in TradesOps /\ pc[p] = "done" /\ response[p].ok)
    => LET raw == response[p].val
           envelope == from_str_Trades(raw.body_text)
       IN  /\ envelope.ok
              => /\ result[p].ok
                 /\ result[p].val.http_status_code = raw.http_status_code
                 /\ result[p].val.body = envelope.val
           /\ ~envelope.ok => ~result[p].ok /\ result[p].val = NoVal

C7_Witness ==
  \E p \in Procs :
    /\ call[p].op = "get_trades_with_options" /\ pc[p] = "done"
    /\ response[p].ok /\ response[p].val.http_status_code = 404
    /\ result[p].ok /\ result[p].val.http_status_code = 404
    /\ Len(trades(result[p].val)) = 2

\* s is the text of an integer: an optional sign and then digits only
IsIntegerText(s) ==
  \/ Len(s) >= 1 /\ \A i \in 1 .. Len(s) : s[i] \in Digits
  \/ /\ Len(s) >= 2
     /\ s[1] \in {"+", "-"}
     /\ \A i \in 2 .. Len(s) : s[i] \in Digits

\* the body is a trades document in which some trade's price is a string
\* that is not the text of an integer
HasBadPrice(text) ==
  /\ text.valid
  /\ HasField(text.json, "data")
  /\ HasField(text.json.o.data, "list")
  /\ text.json.o.data.o.list.t = "array"
  /\ \E i \in 1 .. Len(text.json.o.data.o.list.a) :
       LET trade == text.json.o.data.o.list.a[i]
       IN  /\ HasField(trade, "price")
           /\ trade.o.price.t = "string"
           /\ ~IsIntegerText(trade.o.price.s)

\* C8 (Scenario D): when a trade of data.list has a price that is not the
\* text of an integer, get_trades / get_trades_with_options returns the
\* decode error: never an Ok in which the price became zero or anything
\* else, and never a panic.
C8_ScenarioD ==
  \A p \in Procs :
    (/\ call[p].op \in TradesOps
     /\ pc[p] \in {"done", "panicked"}
     /\ response[p].ok
     /\ HasBadPrice(response[p].val.body_text))
    => /\ pc[p] = "done"
       /\ ~result[p].ok
       /\ result[p].err = "SerdeJsonError"

C8_Witness ==
  \E p \in Procs, q \in Procs :
    /\ client0.body_text = JsonText(TradesDocument(<<"a", "b", "c">>))
    /\ call[p].op = "get_trades" /\ pc[p] = "done"
    /\ HasBadPrice(response[p].val.body_text)
    /\ call[q].op = "get_trades_with_options" /\ pc[q] = "done"

\* C9: a call of get_trades / get_trades_with_options is one request/decode
\* cycle: the transport's get is invoked exactly once, with no retry after a
\* transport error or a decode error; decoding happens only after get has
\* returned a RawResponse; and when get returns an error nothing is decoded
\* and that error is what the call returns.
C9_SingleCycle ==
  \A p \in Procs :
    call[p].op \in TradesOps
    => /\ getCalls[p] = 1
       /\ decodeCalls[p] <= 1
       /\ decodeCalls[p] = 1 => pc[p] = "done" /\ response[p].ok
       /\ pc[p] = "done"
            => /\ response[p].ok => decodeCalls[p] = 1
               /\ ~response[p].ok
                    => /\ decodeCalls[p] = 0
                       /\ response[p].err \in ErrorKinds
                       /\ result[p] = Err(response[p].err)

C9_Witness ==
  \E p \in Procs, q \in Procs :
    /\ call[p].op \in TradesOps /\ pc[p] = "done"
    /\ ~response[p].ok /\ response[p].err = "ReqwestError"
    /\ call[q].op \in TradesOps /\ pc[q] = "done"
    /\ response[q].ok /\ ~result[q].ok

\* everything a call of caller p owns
Local(p) == <<pc[p], call[p], url[p], response[p], result[p], getCalls[p], decodeCalls[p]>>

\* what get_trades_with_options returns on a transport response when it is
\* the only call
Alone(resp) ==
  IF resp.ok THEN parse_from_http_response(resp.val) ELSE Err(resp.err)

\* C10: calls that share one transport are independent under every
\* interleaving: a step of one call changes nothing another call owns and
\* nothing of the transport, and each call returns what it returns alone on
\* the same arguments and the same transport response.
C10_Independent ==
  [][/\ client' = client
     /\ \A p \in Procs :
          /\ pc'[p] = pc[p] => Local(p)' = Local(p)
          /\ (call[p].op \in TradesOps /\ pc[p] = "returned" /\ pc'[p] = "done")
             => result'[p] = Alone(response[p])
          /\ (IsInmem /\ pc[p] = "awaiting" /\ pc'[p] = "returned")
             => response'[p] = IF client0.return_error THEN Err("UnknownError")
                               ELSE Ok(RawResponse(client0.http_status_code,
                                                   client0.body_text))]_vars

C10_Witness ==
  \E p \in Procs, q \in Procs :
    /\ p # q
    /\ call[p].op \in TradesOps /\ call[q].op \in TradesOps
    /\ call[p] # call[q]
    /\ pc[p] = "done" /\ result[p] = Alone(response[p])
    /\ pc[q] = "returned"

====
